---- MODULE Spec2Model ----
(***************************************************************************)
(* A model of immuto (src/index.ts): the reducer chain, the collection and *)
(* reference definitions, the setter synthesised from a getter's source    *)
(* text, and cursors over a Redux-like store.                              *)
(*                                                                         *)
(* JavaScript objects live in a heap of cells and are named by reference,  *)
(* so that a function that copies before it writes (slice, assign({}, x))  *)
(* differs from one that writes in place.  Every model of a function takes *)
(* the heap and returns the new heap h with its result r; r = Thrown       *)
(* stands for an exception leaving the function.                           *)
(***************************************************************************)
EXTENDS Integers, Sequences, FiniteSets, TLC

VARIABLES
    heap,       \* the JavaScript heap: a sequence of cells, a reference is an index
    reducers,   \* the reducer functions made so far (pass-through seeds and chain links)
    store,      \* the Redux store: its current state and its reducer
    cursors,    \* the cursors callers hold
    call        \* the last operation performed, with its inputs and its result

vars == <<heap, reducers, store, cursors, call>>

(***************************************************************************)
(* Values.  Every value is a record {t, v} so that any two compare.        *)
(***************************************************************************)
Undefined == [t |-> "undefined", v |-> 0]
\* An array slot that was never written; it reads as undefined.
Hole == [t |-> "hole", v |-> 0]
\* The result of a call that threw.
Thrown == [t |-> "throw", v |-> 0]
Num(n) == [t |-> "number", v |-> n]
Ref(a) == [t |-> "object", v |-> a]
IsRef(x) == x.t = "object"

\* A heap cell: kind is "object", "array" or "map" (an immutable.js Map);
\* f maps property names, positions (index + 1) or Map keys to values.
NewObject(f) == [kind |-> "object", f |-> f]
NewArray(f) == [kind |-> "array", f |-> f]
NewMap(f) == [kind |-> "map", f |-> f]

Alloc(h, cell) == [h |-> Append(h, cell), r |-> Ref(Len(h) + 1)]

\* F applied to v, with v computed once: const v = ...; return F(v)
Bind(v, F(_)) == F(v)

\* What a reference stands for, cells followed to the leaves.
RECURSIVE Val(_, _)
Val(h, x) ==
    IF IsRef(x)
    THEN [kind |-> h[x.v].kind,
          f |-> [k \in DOMAIN h[x.v].f |-> Val(h, h[x.v].f[k])]]
    ELSE x

Merge(f, g) == [k \in DOMAIN f \cup DOMAIN g |-> IF k \in DOMAIN g THEN g[k] ELSE f[k]]

\* Number.prototype.toString, as used when a number is a property name.
Digits == <<"0", "1", "2", "3", "4", "5", "6", "7", "8", "9">>
RECURSIVE NumberToString(_)
NumberToString(n) ==
    IF n < 10 THEN Digits[n + 1] ELSE NumberToString(n \div 10) \o Digits[(n % 10) + 1]

(***************************************************************************)
(* assign(target, ...sources): copies the own properties of each source    *)
(* onto target, in place, and returns target.  Object.keys of undefined    *)
(* throws.  A source is a reference or an object literal written at the    *)
(* call site (Literal), which no one else can hold.                        *)
(***************************************************************************)
Literal(f) == [t |-> "literal", f |-> f]
OwnProperties(h, x) == IF IsRef(x) THEN h[x.v].f ELSE x.f

RECURSIVE assign(_, _, _)
assign(h, target, sources) ==
    IF sources = <<>> THEN [h |-> h, r |-> target]
    ELSE IF Head(sources).t \notin {"object", "literal"} THEN [h |-> h, r |-> Thrown]
    ELSE assign([h EXCEPT ![target.v].f = Merge(@, OwnProperties(h, Head(sources)))],
                target, Tail(sources))

\* an amend that writes into o1 itself: assign(o1, o2)
amend_inPlace(h, o1, o2) ==
    IF ~IsRef(o1) THEN [h |-> h, r |-> Thrown] ELSE assign(h, o1, <<o2>>)

\* amend(o1, o2) = assign({}, o1, o2)
amend(h, o1, o2) ==
    Bind(Alloc(h, NewObject(<<>>)), LAMBDA fresh : assign(fresh.h, fresh.r, <<o1, o2>>))

True == [t |-> "boolean", v |-> 1]

\* JavaScript truthiness, for the tests "remove ?" and "update ?".  An
\* action (a record with a type) is an object, so it is truthy.
Truthy(x) ==
    IF "t" \in DOMAIN x
    THEN x.t \notin {"undefined", "hole"} /\ ~(x.t \in {"number", "boolean"} /\ x.v = 0)
    ELSE TRUE

(***************************************************************************)
(* builtInOperations: a plain object used as a map.  A numeric key names   *)
(* the property whose name is the key's decimal string.                    *)
(***************************************************************************)
\* a get without the default: items[key]
builtInOperations_get_noDefault(h, items, key, emptyItem) ==
    IF ~IsRef(items) THEN Thrown
    ELSE IF NumberToString(key) \in DOMAIN h[items.v].f
         THEN h[items.v].f[NumberToString(key)]
         ELSE Undefined

builtInOperations_get(h, items, key, emptyItem) ==
    IF ~IsRef(items) THEN Thrown
    ELSE IF NumberToString(key) \in DOMAIN h[items.v].f
         THEN h[items.v].f[NumberToString(key)]
         ELSE emptyItem

builtInOperations_set(h, items, key, item) ==
    amend(h, items, Literal(NumberToString(key) :> item))

builtInOperations_remove(h, items, key, emptyItem) ==
    Bind(amend(h, items, Literal(<<>>)),    \* items = assign({}, items)
         LAMBDA copy :
            IF copy.r = Thrown THEN copy
            ELSE [h |-> [copy.h EXCEPT ![copy.r.v].f =     \* delete items[key]
                            [k \in DOMAIN @ \ {NumberToString(key)} |-> @[k]]],
                  r |-> copy.r])

(***************************************************************************)
(* immutableMapOperations: an immutable.js Map.  set and remove return a   *)
(* new Map, or the same Map when nothing changes.                          *)
(***************************************************************************)
immutableMapOperations_get(h, items, key, emptyItem) ==
    IF ~IsRef(items) THEN Thrown
    ELSE IF key \in DOMAIN h[items.v].f THEN h[items.v].f[key] ELSE emptyItem

immutableMapOperations_set(h, items, key, item) ==
    IF ~IsRef(items) THEN [h |-> h, r |-> Thrown]
    ELSE IF key \in DOMAIN h[items.v].f /\ h[items.v].f[key] = item
         THEN [h |-> h, r |-> items]
         ELSE Alloc(h, NewMap(Merge(h[items.v].f, key :> item)))

immutableMapOperations_remove(h, items, key, emptyItem) ==
    IF ~IsRef(items) THEN [h |-> h, r |-> Thrown]
    ELSE IF key \notin DOMAIN h[items.v].f
         THEN [h |-> h, r |-> items]
         ELSE Alloc(h, NewMap([k \in DOMAIN h[items.v].f \ {key} |-> h[items.v].f[k]]))

(***************************************************************************)
(* arrayOperations: a JavaScript array; index k is position k + 1.         *)
(***************************************************************************)
\* items[key]: undefined beyond the length and in a hole.
ArrayRead(f, key) ==
    IF key + 1 \in DOMAIN f /\ f[key + 1] # Hole THEN f[key + 1] ELSE Undefined

\* items.splice(key, 1, item) for key >= 0: the start is clamped to the
\* length; one element is deleted there if there is one, and item is
\* inserted at the start.
ArraySplice1(f, key, item) ==
    LET start == IF key > Len(f) THEN Len(f) ELSE key
    IN  SubSeq(f, 1, start) \o <<item>> \o SubSeq(f, start + 2, Len(f))

\* items[key] = item: the array grows to key + 1, with holes between.
ArrayWrite(f, key, item) ==
    [i \in 1..(IF key + 1 > Len(f) THEN key + 1 ELSE Len(f)) |->
        IF i = key + 1 THEN item ELSE IF i <= Len(f) THEN f[i] ELSE Hole]

arrayOperations_get(h, items, key, emptyItem) ==
    IF ~IsRef(items) THEN Thrown
    ELSE Bind(ArrayRead(h[items.v].f, key),
              LAMBDA r : IF r = Undefined THEN emptyItem ELSE r)

arrayOperations_set(h, items, key, item) ==
    IF ~IsRef(items) THEN [h |-> h, r |-> Thrown]
    ELSE Bind(Alloc(h, NewArray(h[items.v].f)),    \* items.slice(0)
              LAMBDA copy :
                [h |-> [copy.h EXCEPT ![copy.r.v].f = ArraySplice1(@, key, item)],
                 r |-> copy.r])

\* a remove that takes the element out and closes the gap: splice(key, 1)
arrayOperations_remove_closing(h, items, key, emptyItem) ==
    IF ~IsRef(items) THEN [h |-> h, r |-> Thrown]
    ELSE Bind(Alloc(h, NewArray(h[items.v].f)),
              LAMBDA copy :
                [h |-> [copy.h EXCEPT ![copy.r.v].f =
                            [i \in 1..(IF key < Len(@) THEN Len(@) - 1 ELSE Len(@)) |->
                                IF i <= key THEN @[i] ELSE @[i + 1]]],
                 r |-> copy.r])

arrayOperations_remove(h, items, key, emptyItem) ==
    IF ~IsRef(items) THEN [h |-> h, r |-> Thrown]
    ELSE Bind(Alloc(h, NewArray(h[items.v].f)),    \* items.slice(0)
              LAMBDA copy :
                [h |-> [copy.h EXCEPT ![copy.r.v].f = ArrayWrite(@, key, emptyItem)],
                 r |-> copy.r])

\* A CollectionOperations object, named by the function that returns it.
OperationsNames == {"numberMapOperations", "immutableMapOperations", "arrayOperations"}

operations_get(ops, h, items, key, emptyItem) ==
    CASE ops = "numberMapOperations" -> builtInOperations_get(h, items, key, emptyItem)
      [] ops = "immutableMapOperations" -> immutableMapOperations_get(h, items, key, emptyItem)
      [] ops = "arrayOperations" -> arrayOperations_get(h, items, key, emptyItem)

operations_set(ops, h, items, key, item) ==
    CASE ops = "numberMapOperations" -> builtInOperations_set(h, items, key, item)
      [] ops = "immutableMapOperations" -> immutableMapOperations_set(h, items, key, item)
      [] ops = "arrayOperations" -> arrayOperations_set(h, items, key, item)

operations_remove(ops, h, items, key, emptyItem) ==
    CASE ops = "numberMapOperations" -> builtInOperations_remove(h, items, key, emptyItem)
      [] ops = "immutableMapOperations" -> immutableMapOperations_remove(h, items, key, emptyItem)
      [] ops = "arrayOperations" -> arrayOperations_remove(h, items, key, emptyItem)

(***************************************************************************)
(* The two regular expressions of ensureReducer, and RegExp.prototype.exec *)
(* on them.  A source text is a sequence of one-character strings.  A      *)
(* regular expression is a sequence of atoms: a character class (a single  *)
(* character, "alpha" for [a-z], "space" for \s), a quantifier ("1", "?",  *)
(* "*", "+", all greedy) and the number of the capture group around it (0: *)
(* none).  Both expressions carry the i flag.                              *)
(***************************************************************************)
UpperLetters == <<"A", "B", "C", "D", "E", "F", "G", "H", "I", "J", "K", "L", "M",
                  "N", "O", "P", "Q", "R", "S", "T", "U", "V", "W", "X", "Y", "Z">>
LowerLetters == <<"a", "b", "c", "d", "e", "f", "g", "h", "i", "j", "k", "l", "m",
                  "n", "o", "p", "q", "r", "s", "t", "u", "v", "w", "x", "y", "z">>
Whitespace == {" ", "\t", "\n", "\r"}

Lower(ch) ==
    IF \E i \in 1..Len(UpperLetters) : UpperLetters[i] = ch
    THEN LowerLetters[CHOOSE i \in 1..Len(UpperLetters) : UpperLetters[i] = ch]
    ELSE ch

CharMatches(cls, ch) ==
    CASE cls = "alpha" -> \E i \in 1..Len(LowerLetters) : LowerLetters[i] = Lower(ch)
      [] cls = "space" -> ch \in Whitespace
      [] OTHER -> Lower(ch) = Lower(cls)

Atom(cls, q, g) == [cls |-> cls, q |-> q, g |-> g]

RECURSIVE Chars(_)
Chars(cs) == IF cs = <<>> THEN <<>> ELSE <<Atom(Head(cs), "1", 0)>> \o Chars(Tail(cs))

\* /function\s*[a-z]*\s*\(\s*([a-z]+)\s*\)\s*\{\s*return\s+([a-z]+)\.([a-z]+)/i
matchFunction ==
    Chars(<<"f", "u", "n", "c", "t", "i", "o", "n">>)
    \o <<Atom("space", "*", 0), Atom("alpha", "*", 0), Atom("space", "*", 0),
         Atom("(", "1", 0), Atom("space", "*", 0), Atom("alpha", "+", 1),
         Atom("space", "*", 0), Atom(")", "1", 0), Atom("space", "*", 0),
         Atom("{", "1", 0), Atom("space", "*", 0)>>
    \o Chars(<<"r", "e", "t", "u", "r", "n">>)
    \o <<Atom("space", "+", 0), Atom("alpha", "+", 2), Atom(".", "1", 0),
         Atom("alpha", "+", 3)>>

\* /\(?\s*([a-z]+)\s*\)?\s*\=\>\s*([a-z]+)\.([a-z]+)/i
matchLambda ==
    <<Atom("(", "?", 0), Atom("space", "*", 0), Atom("alpha", "+", 1),
      Atom("space", "*", 0), Atom(")", "?", 0), Atom("space", "*", 0),
      Atom("=", "1", 0), Atom(">", "1", 0), Atom("space", "*", 0),
      Atom("alpha", "+", 2), Atom(".", "1", 0), Atom("alpha", "+", 3)>>

NoMatch == [ok |-> FALSE, groups |-> <<>>]

RECURSIVE RunLength(_, _, _)
RunLength(cls, src, pos) ==
    IF pos <= Len(src) /\ CharMatches(cls, src[pos])
    THEN 1 + RunLength(cls, src, pos + 1)
    ELSE 0

\* The positions at which an atom that starts at pos may end.
AtomEnds(atom, src, pos) ==
    {pos + n : n \in (IF atom.q \in {"1", "+"} THEN 1 ELSE 0) ..
                     (IF atom.q \in {"1", "?"} /\ RunLength(atom.cls, src, pos) > 1
                      THEN 1 ELSE RunLength(atom.cls, src, pos))}

\* Every way atoms 1..i of re match src from start: the sequence of the
\* positions at which the atoms end.
RECURSIVE MatchPaths(_, _, _, _)
MatchPaths(re, i, src, start) ==
    IF i = 0 THEN {<<>>}
    ELSE UNION {{p \o <<e>> : e \in AtomEnds(re[i], src, IF p = <<>> THEN start ELSE p[Len(p)])} :
                p \in MatchPaths(re, i - 1, src, start)}

\* Greedy quantifiers with backtracking: of two ways to match, the engine
\* finds first the one whose earliest differing atom takes more.
Preferred(p, q) ==
    \/ p = q
    \/ \E j \in 1..Len(p) : p[j] > q[j] /\ \A l \in 1..(j - 1) : p[l] = q[l]

\* The text each capture group took along path p.
GroupsOf(re, src, start, p) ==
    [g \in {re[i].g : i \in 1..Len(re)} \ {0} |->
        SubSeq(src,
               IF (CHOOSE i \in 1..Len(re) : re[i].g = g) = 1 THEN start
               ELSE p[(CHOOSE i \in 1..Len(re) : re[i].g = g) - 1],
               p[CHOOSE i \in 1..Len(re) : re[i].g = g] - 1)]

MatchAt(re, src, start) ==
    Bind(MatchPaths(re, Len(re), src, start),
         LAMBDA paths :
            IF paths = {} THEN NoMatch
            ELSE [ok |-> TRUE,
                  groups |-> GroupsOf(re, src, start,
                                CHOOSE p \in paths : \A q \in paths : Preferred(p, q))])

\* re.exec(src): the match at the leftmost position that has one.
exec(re, src) ==
    Bind({start \in 1..(Len(src) + 1) : MatchPaths(re, Len(re), src, start) # {}},
         LAMBDA starts :
            IF starts = {} THEN NoMatch
            ELSE MatchAt(re, src, CHOOSE p \in starts : \A q \in starts : p <= q))

\* The string of a sequence of characters.
RECURSIVE Join(_)
Join(cs) == IF cs = <<>> THEN "" ELSE Head(cs) \o Join(Tail(cs))

(***************************************************************************)
(* A getter is a function of the caller: src is its source text (what      *)
(* fetch.toString() returns) and path the properties it reads from its     *)
(* argument, in order (s => s.a.b reads <<"a", "b">>).  A setter is either *)
(* the caller's own (explicit) or the one ensureReducer makes; both        *)
(* overwrite one field of a copy of the state.                             *)
(***************************************************************************)
RECURSIVE ReadPath(_, _, _)
ReadPath(h, x, path) ==
    IF path = <<>> THEN x
    ELSE IF ~IsRef(x) THEN Thrown
    ELSE ReadPath(h, IF Head(path) \in DOMAIN h[x.v].f THEN h[x.v].f[Head(path)] ELSE Undefined,
                  Tail(path))

fetchState(h, getter, state) == ReadPath(h, state, getter.path)

ExplicitSetter(field) == [kind |-> "explicit", field |-> field]
SynthesizedSetter(field) == [kind |-> "synthesized", field |-> field]
ConfigurationError(why) == [kind |-> "error", why |-> why]

\* ensureReducer(context, fetch, reduce): reduce if given; otherwise the
\* setter for the field that the first matching expression captured, or an
\* Error thrown.
ensureReducer(fetch, reduce) ==
    IF reduce # Undefined THEN reduce
    ELSE Bind(Bind(exec(matchFunction, fetch.src),
                   LAMBDA f : IF f.ok THEN f ELSE exec(matchLambda, fetch.src)),
              LAMBDA matched :
                IF ~matched.ok THEN ConfigurationError("too complex to parse")
                ELSE IF matched.groups[1] # matched.groups[2]
                     THEN ConfigurationError("inconsistent parameter usage")
                     ELSE SynthesizedSetter(Join(matched.groups[3])))

\* (state, value) => amend(state, { [field]: value })
applySetter(h, setter, state, value) ==
    amend(h, state, Literal(setter.field :> value))

(***************************************************************************)
(* Actions and definitions.  An action is {type, payload}.  A definition   *)
(* (ActionDefinition) is what Reducer.action registers: its type and its   *)
(* reduce, which is a function of the caller (action), the reduce of a     *)
(* collection or the reduce of a reference.                                *)
(***************************************************************************)
Action(type, payload) == [type |-> type, payload |-> payload]

\* action(type, reduce): reduce is named; UserReduce gives what it computes.
action(type, reduce) == [kind |-> "action", type |-> type, reduce |-> reduce]

\* The reduce functions callers pass to action() in this development.
UserReduce(fn, h, state, payload) ==
    CASE fn = "increment" ->    \* (s, p) => amend(s, { count: s.count + 1 })
            IF ~IsRef(state) THEN [h |-> h, r |-> Thrown]
            ELSE amend(h, state, Literal("count" :> Num(h[state.v].f["count"].v + 1)))
      [] fn = "add" ->          \* (s, p) => amend(s, { count: s.count + p })
            IF ~IsRef(state) THEN [h |-> h, r |-> Thrown]
            ELSE amend(h, state, Literal("count" :> Num(h[state.v].f["count"].v + payload.v)))
      [] fn = "reset" ->        \* (s, p) => ({ count: p })
            Alloc(h, NewObject("count" :> payload))
      [] fn = "setPrice" ->     \* (s, p) => amend(s, { price: p })
            amend(h, state, Literal("price" :> payload))
      [] fn = "replace" ->      \* (s, v) => v, the reduce of primitive()
            [h |-> h, r |-> payload]

\* the test with the comparison of tags left out
isAction_anyType(obj, type) == Truthy(obj) /\ "type" \in DOMAIN obj

\* isAction(obj, type): obj && obj.type === type
isAction(obj, type) == Truthy(obj) /\ "type" \in DOMAIN obj /\ obj.type = type

(***************************************************************************)
(* chain(headType, empty, head, rest) makes a reducer: a closure over its  *)
(* four arguments.  rest = 0 is the pass-through function of reducer(),    *)
(* s => s === undefined ? empty : s; otherwise rest is the reducer that    *)
(* action() was called on.                                                 *)
(***************************************************************************)
chain(headType, empty, head, rest) ==
    [headType |-> headType, empty |-> empty, head |-> head, rest |-> rest]

\* a pass-through that forgets the state it was given
passThrough_forgetful(empty, s) == empty

\* s => s === undefined ? empty : s
passThrough(empty, s) == IF s = Undefined THEN empty ELSE s

\* reducer(empty).action(def)
reducer_action(rs, empty, def) == Append(rs, chain(def.type, empty, def, 0))

\* an action() that registers def on rs[x] itself and moves what rs[x] was
\* to a new place
chain_action_inPlace(rs, x, def) ==
    Append([rs EXCEPT ![x] = chain(def.type, rs[x].empty, def, Len(rs) + 1)], rs[x])

\* rs[x].action(def): a new reducer whose rest is x
chain_action(rs, x, def) == Append(rs, chain(def.type, rs[x].empty, def, x))

\* The update action of a collection: { type, payload: { key, update } };
\* add leaves update out and remove sets remove: true.
Update(key, update, remove) == [key |-> key, update |-> update, remove |-> remove]
collection_add(type, key) == Action(type, Update(key, Undefined, Undefined))
collection_remove(type, key) == Action(type, Update(key, Undefined, True))
collection_update(type, key, update) == Action(type, Update(key, update, Undefined))

\* The update action of a reference: { type, payload }
reference_update(type, payload) == Action(type, payload)

\* replace(value)
REPLACE == "REPLACE"
replace(value) == Action(REPLACE, value)

(***************************************************************************)
(* The reduce of a chain, of a collection and of a reference.  Each        *)
(* returns the heap, the new state (or Thrown) and, for a chain, the       *)
(* reducers whose head it called, in order.                                *)
(***************************************************************************)
RECURSIVE chain_reduce(_, _, _, _, _)
RECURSIVE collection_reduce(_, _, _, _, _)
RECURSIVE reference_reduce(_, _, _, _, _)

\* def.reduce(state, payload)
definition_reduce(rs, def, h, state, payload) ==
    CASE def.kind = "action" -> UserReduce(def.reduce, h, state, payload)
      [] def.kind = "collection" -> collection_reduce(rs, def, h, state, payload)
      [] def.kind = "reference" -> reference_reduce(rs, def, h, state, payload)

chain_reduce(rs, x, h, state, act) ==
    IF isAction(act, rs[x].headType)
    THEN Bind(definition_reduce(rs, rs[x].head, h, state, act.payload),
              LAMBDA res : [h |-> res.h, r |-> res.r, calls |-> <<x>>])
    ELSE IF rs[x].rest = 0
         THEN [h |-> h, r |-> passThrough(rs[x].empty, state), calls |-> <<>>]
         ELSE chain_reduce(rs, rs[x].rest, h, state, act)

\* ensuredSet(state, collection), for the collection an operation returned
collection_commit(def, state, res) ==
    IF res.r = Thrown THEN res ELSE applySetter(res.h, def.set, state, res.r)

\* a case-reduce that looks at update before it looks at remove
collection_reduce_updateFirst(rs, def, h, state, payload) ==
    Bind(fetchState(h, def.get, state),
         LAMBDA coll :
    Bind(operations_get(def.operations, h, coll, payload.key, rs[def.reducer].empty),
         LAMBDA value :
            IF value = Thrown THEN [h |-> h, r |-> Thrown]
            ELSE IF Truthy(payload.update)
            THEN Bind(chain_reduce(rs, def.reducer, h, value, payload.update),
                      LAMBDA item :
                        IF item.r = Thrown THEN [h |-> item.h, r |-> Thrown]
                        ELSE collection_commit(def, state,
                                operations_set(def.operations, item.h, coll,
                                               payload.key, item.r)))
            ELSE IF Truthy(payload.remove)
            THEN collection_commit(def, state,
                    operations_remove(def.operations, h, coll, payload.key,
                                      rs[def.reducer].empty))
            ELSE collection_commit(def, state,
                    operations_set(def.operations, h, coll, payload.key, value))))

collection_reduce(rs, def, h, state, payload) ==
    Bind(fetchState(h, def.get, state),
         LAMBDA coll :
    Bind(operations_get(def.operations, h, coll, payload.key, rs[def.reducer].empty),
         LAMBDA value :
            IF value = Thrown THEN [h |-> h, r |-> Thrown]
            ELSE IF Truthy(payload.remove)
            THEN collection_commit(def, state,
                    operations_remove(def.operations, h, coll, payload.key,
                                      rs[def.reducer].empty))
            ELSE Bind(IF Truthy(payload.update)
                      THEN chain_reduce(rs, def.reducer, h, value, payload.update)
                      ELSE [h |-> h, r |-> value],
                      LAMBDA item :
                        IF item.r = Thrown THEN [h |-> item.h, r |-> Thrown]
                        ELSE collection_commit(def, state,
                                operations_set(def.operations, item.h, coll,
                                               payload.key, item.r)))))

\* a case-reduce that commits nothing
reference_reduce_uncommitted(rs, def, h, outerState, innerAction) ==
    [h |-> h, r |-> outerState]

reference_reduce(rs, def, h, outerState, innerAction) ==
    Bind(fetchState(h, def.get, outerState),
         LAMBDA got :
            IF got = Thrown THEN [h |-> h, r |-> Thrown]
            ELSE Bind(chain_reduce(rs, def.reducer, h, got, innerAction),
                      LAMBDA inner :
                        IF inner.r = Thrown THEN [h |-> inner.h, r |-> Thrown]
                        ELSE applySetter(inner.h, def.set, outerState, inner.r)))

\* collection(type, reducer, operations, get, set): the definition, or the
\* Error ensureReducer throws.
collection(type, reducer, operations, get, set) ==
    Bind(ensureReducer(get, set),
         LAMBDA ensuredSet :
            IF ensuredSet.kind = "error" THEN ensuredSet
            ELSE [kind |-> "collection", type |-> type, reducer |-> reducer,
                  operations |-> operations, get |-> get, set |-> ensuredSet])

\* reference(type, reducer, get, set)
reference(type, reducer, get, set) ==
    Bind(ensureReducer(get, set),
         LAMBDA ensuredSet :
            IF ensuredSet.kind = "error" THEN ensuredSet
            ELSE [kind |-> "reference", type |-> type, reducer |-> reducer,
                  get |-> get, set |-> ensuredSet])

\* a store whose state is not initialised by a first reduce
createStore_uninitialised(rs, x, h) ==
    [heap |-> h,
     store |-> [state |-> Undefined, reducer |-> x, dispatched |-> <<>>]]

(***************************************************************************)
(* The store (Redux's createStore, seen through the Store interface) and   *)
(* cursors.  A world w is the heap with the store: {heap, store}; the      *)
(* store records the actions dispatched on it.                             *)
(***************************************************************************)
\* createStore(reduce): Redux reduces its own init action from undefined.
createStore(rs, x, h) ==
    Bind(chain_reduce(rs, x, h, Undefined, Action("@@redux/INIT", Undefined)),
         LAMBDA init :
            [heap |-> init.h,
             store |-> [state |-> init.r, reducer |-> x, dispatched |-> <<>>]])

store_getState(w) == w.store.state

\* store.dispatch(action): the state becomes reduce(state, action); when
\* reduce throws the state stays and the exception leaves dispatch.
store_dispatch(rs, w, act) ==
    Bind(chain_reduce(rs, w.store.reducer, w.heap, w.store.state, act),
         LAMBDA res :
            [heap |-> res.h,
             store |-> [w.store EXCEPT !.state = IF res.r = Thrown THEN @ ELSE res.r,
                                       !.dispatched = Append(@, act)],
             thrown |-> res.r = Thrown])

\* snapshot(store): the cursor; its dispatch is cursor_dispatch below.
snapshot(w) == [kind |-> "snapshot", state |-> store_getState(w)]

\* The fetch and update that collection() and reference() hand to items()
\* and item(): plainCursors reads operations.get(get(state), key, empty)
\* and wraps with update(key, action); a reference reads get(state) and
\* wraps with update(action), its key being undefined.
items_fetch(rs, def, h, outerState, key) ==
    IF def.kind = "collection"
    THEN operations_get(def.operations, h, fetchState(h, def.get, outerState), key.v,
                        rs[def.reducer].empty)
    ELSE fetchState(h, def.get, outerState)

\* an update that hands the inner action on as it is
items_update_unwrapped(def, key, innerAction) == innerAction

items_update(def, key, innerAction) ==
    IF def.kind = "collection"
    THEN collection_update(def.type, key.v, innerAction)
    ELSE reference_update(def.type, innerAction)

\* items(fetch, update)(outer, key): the cursor, or Thrown when fetch throws.
items(rs, def, h, outer, key) ==
    Bind(items_fetch(rs, def, h, outer.state, key),
         LAMBDA fetched :
            IF fetched = Thrown THEN Thrown
            ELSE [kind |-> "items", def |-> def, outer |-> outer, key |-> key,
                  state |-> fetched])

\* item(fetch, update)(outer) = items(fetch, (_, action) => update(action))(outer, undefined)
item(rs, def, h, outer) == items(rs, def, h, outer, Undefined)

\* cursor(action): the world after the dispatch and the cursor returned
\* (c = Thrown when the dispatch threw).
RECURSIVE cursor_dispatch(_, _, _, _)
\* a dispatch that takes its snapshot before it dispatches
cursor_dispatch_early(rs, w, cursor, act) ==
    IF cursor.kind = "snapshot"
    THEN Bind(store_dispatch(rs, w, act),
              LAMBDA after :
                [w |-> [heap |-> after.heap, store |-> after.store],
                 c |-> IF after.thrown THEN Thrown ELSE snapshot(w)])
    ELSE Bind(cursor_dispatch(rs, w, cursor.outer,
                              items_update(cursor.def, cursor.key, act)),
              LAMBDA outer :
                [w |-> outer.w,
                 c |-> IF outer.c = Thrown THEN Thrown
                       ELSE items(rs, cursor.def, outer.w.heap, outer.c, cursor.key)])

\* a dispatch that reduces the state the cursor captured, not the store's
cursor_dispatch_captured(rs, w, cursor, act) ==
    IF cursor.kind = "snapshot"
    THEN Bind(store_dispatch(rs, [w EXCEPT !.store.state = cursor.state], act),
              LAMBDA after :
                [w |-> [heap |-> after.heap, store |-> after.store],
                 c |-> IF after.thrown THEN Thrown ELSE snapshot(after)])
    ELSE Bind(cursor_dispatch(rs, w, cursor.outer,
                              items_update(cursor.def, cursor.key, act)),
              LAMBDA outer :
                [w |-> outer.w,
                 c |-> IF outer.c = Thrown THEN Thrown
                       ELSE items(rs, cursor.def, outer.w.heap, outer.c, cursor.key)])

cursor_dispatch(rs, w, cursor, act) ==
    IF cursor.kind = "snapshot"
    THEN Bind(store_dispatch(rs, w, act),
              LAMBDA after :
                [w |-> [heap |-> after.heap, store |-> after.store],
                 c |-> IF after.thrown THEN Thrown ELSE snapshot(after)])
    ELSE Bind(cursor_dispatch(rs, w, cursor.outer,
                              items_update(cursor.def, cursor.key, act)),
              LAMBDA outer :
                [w |-> outer.w,
                 c |-> IF outer.c = Thrown THEN Thrown
                       ELSE items(rs, cursor.def, outer.w.heap, outer.c, cursor.key)])

\* a remove() whose action leaves out remove: true
cursor_remove_asAdd(rs, w, cursor) ==
    cursor_dispatch(rs, w, cursor.outer, collection_add(cursor.def.type, cursor.key.v))

\* collectionCursors(outer, key).remove(): outer(remove(key))
cursor_remove(rs, w, cursor) ==
    cursor_dispatch(rs, w, cursor.outer, collection_remove(cursor.def.type, cursor.key.v))

(***************************************************************************)
(* The application the store is built for (after the shop of the source's  *)
(* collection comment): a Shop owns a collection of shelves under a numeric*)
(* key and a property open; a Shelf has a price, set by SET_PRICE, and a   *)
(* property stock.  All three getters come without a setter, so every      *)
(* setter is the synthesised one.                                          *)
(***************************************************************************)
MaxCursors == 3     \* cursors held at a time
MaxDispatch == 2    \* actions dispatched on the store

Keys == {0, 1}
Prices == {1, 2}

\* s => s.shelves
getShelves ==
    [src |-> <<"s", " ", "=", ">", " ", "s", ".", "s", "h", "e", "l", "v", "e", "s">>,
     path |-> <<"shelves">>]
\* function (s) { return s.stock; }
getStock ==
    [src |-> <<"f", "u", "n", "c", "t", "i", "o", "n", " ", "(", "s", ")", " ", "{", " ",
               "r", "e", "t", "u", "r", "n", " ", "s", ".", "s", "t", "o", "c", "k", ";",
               " ", "}">>,
     path |-> <<"stock">>]
\* (shop) => shop.open
getOpen ==
    [src |-> <<"(", "s", "h", "o", "p", ")", " ", "=", ">", " ", "s", "h", "o", "p", ".",
               "o", "p", "e", "n">>,
     path |-> <<"open">>]

\* primitive(): reducer(undefined).action(action(REPLACE, (s, v) => v))
primitive(rs) == reducer_action(rs, Undefined, action(REPLACE, "replace"))

\* property(type, fetch, reduce) = reference(type, primitive(), fetch, reduce),
\* where prim is the reducer primitive() returned.
property(type, prim, fetch, reduce) == reference(type, prim, fetch, reduce)

EmptyCollection(o) ==
    CASE o = "numberMapOperations" -> NewObject(<<>>)
      [] o = "immutableMapOperations" -> NewMap(<<>>)
      [] o = "arrayOperations" -> NewArray(<<>>)

\* The heap once the empty states are made: the empty Shelf, the empty
\* collection and the empty Shop.
ShelfEmpty == Ref(1)
ShopEmpty == Ref(3)
AppHeap(o) ==
    <<NewObject([price |-> Num(0), stock |-> Num(0)]),
      EmptyCollection(o),
      NewObject([shelves |-> Ref(2), open |-> Num(0)])>>

\* The reducers, in the order the program makes them.
ShelfReducer == 3
ShopReducer == 6
shelvesOf(o) == collection("SHELVES", ShelfReducer, o, getShelves, Undefined)
stockOf == property("STOCK", 2, getStock, Undefined)
openOf == property("OPEN", 5, getOpen, Undefined)

ShelfReducers ==
    chain_action(primitive(reducer_action(<<>>, ShelfEmpty, action("SET_PRICE", "setPrice"))),
                 1, stockOf)
AppReducers(o) ==
    chain_action(primitive(reducer_action(ShelfReducers, ShopEmpty, shelvesOf(o))),
                 4, openOf)

\* The operations the Shop's collection was declared with.
ops == reducers[4].head.operations

World == [heap |-> heap, store |-> store]

\* The actions a caller may send to a cursor over a Shelf, over a property
\* and over the Shop; NOP is a type no definition handles.
ShelfActions ==
    {Action("SET_PRICE", Num(p)) : p \in Prices}
    \cup {reference_update("STOCK", replace(Num(1))), Action("NOP", Undefined)}
PropertyActions == {replace(Num(p)) : p \in Prices}
ShopActions ==
    {collection_add("SHELVES", k) : k \in Keys}
    \cup {collection_remove("SHELVES", k) : k \in Keys}
    \cup {collection_update("SHELVES", k, a) : k \in Keys, a \in ShelfActions}
    \cup {reference_update("OPEN", replace(Num(1))), Action("NOP", Undefined)}

\* The actions of the type a cursor accepts.
ActionsOf(cursor) ==
    IF cursor.kind = "snapshot" THEN ShopActions
    ELSE IF cursor.def.kind = "collection" THEN ShelfActions
    ELSE PropertyActions

\* A held cursor, with what its state stood for when it was made.
Held(h, cursor) == [c |-> cursor, captured |-> Val(h, cursor.state)]

\* The caller keeps a cursor it was given while it has room for one.
Hold(h, cursor) ==
    IF cursor # Thrown /\ Cardinality(cursors) < MaxCursors
    THEN cursors \cup {Held(h, cursor)}
    ELSE cursors

Init ==
    \E o \in OperationsNames :
        /\ reducers = AppReducers(o)
        /\ \E w \in {createStore(AppReducers(o), ShopReducer, AppHeap(o))} :
                heap = w.heap /\ store = w.store
        /\ cursors = {}
        /\ call = [op |-> "createStore"]

\* snapshot(store)
Snapshot ==
    /\ Cardinality(cursors) < MaxCursors
    /\ cursors' = Hold(heap, snapshot(World))
    /\ call' = [op |-> "snapshot"]
    /\ UNCHANGED <<heap, reducers, store>>

\* shelves(outer, key), the collection definition called as a function
ShelfAt ==
    \E held \in cursors, k \in Keys :
        /\ Cardinality(cursors) < MaxCursors
        /\ held.c.kind = "snapshot"
        /\ cursors' = Hold(heap, items(reducers, reducers[4].head, heap, held.c, Num(k)))
        /\ call' = [op |-> "items"]
        /\ UNCHANGED <<heap, reducers, store>>

\* open(outer) and stock(outer), the reference definitions called as functions
PropertyOf ==
    \E held \in cursors :
        /\ Cardinality(cursors) < MaxCursors
        /\ \/ held.c.kind = "snapshot"
              /\ cursors' = Hold(heap, item(reducers, reducers[6].head, heap, held.c))
           \/ held.c.kind = "items" /\ held.c.def.kind = "collection"
              /\ cursors' = Hold(heap, item(reducers, reducers[3].head, heap, held.c))
        /\ call' = [op |-> "item"]
        /\ UNCHANGED <<heap, reducers, store>>

\* cursor(action): the caller keeps the cursor returned when it has room
Dispatch ==
    \E held \in cursors :
        \E a \in ActionsOf(held.c) :
            /\ Len(store.dispatched) < MaxDispatch
            /\ \E done \in {cursor_dispatch(reducers, World, held.c, a)} :
                   /\ heap' = done.w.heap
                   /\ store' = done.w.store
                   /\ cursors' = Hold(done.w.heap, done.c)
                   /\ call' = [op |-> "dispatch", cursor |-> held.c, action |-> a,
                               before |-> World, returned |-> done.c]
            /\ UNCHANGED reducers

\* cursor.remove() on a collection cursor
Remove ==
    \E held \in cursors :
        /\ Len(store.dispatched) < MaxDispatch
        /\ held.c.kind = "items" /\ held.c.def.kind = "collection"
        /\ \E done \in {cursor_remove(reducers, World, held.c)} :
               /\ heap' = done.w.heap
               /\ store' = done.w.store
               /\ cursors' = Hold(done.w.heap, done.c)
               /\ call' = [op |-> "remove", cursor |-> held.c,
                           before |-> World, returned |-> done.c]
        /\ UNCHANGED reducers

\* store.dispatch(action), by a caller that holds the store itself
StoreDispatch ==
    \E a \in ShopActions :
        /\ Len(store.dispatched) < MaxDispatch
        /\ \E done \in {store_dispatch(reducers, World, a)} :
               heap' = done.heap /\ store' = done.store
        /\ call' = [op |-> "store.dispatch", action |-> a, before |-> World]
        /\ UNCHANGED <<reducers, cursors>>

Next == Snapshot \/ ShelfAt \/ PropertyOf \/ Dispatch \/ Remove \/ StoreDispatch

Spec == Init /\ [][Next]_vars

(***************************************************************************)
(* SpecColl: the case-reduce of the Shop's collection of shelves, called   *)
(* on an owner state again and again, for each operations object, with the *)
(* setter synthesized or given, from every small collection.               *)
(***************************************************************************)
MaxReduces == 2     \* calls of the case-reduce

CollKeys == {0, 1}
ItemActions == {Action("SET_PRICE", Num(2)), reference_update("STOCK", replace(Num(1)))}
Payloads ==
    {Update(k, Undefined, Undefined) : k \in CollKeys}
    \cup {Update(k, Undefined, True) : k \in CollKeys}
    \cup {Update(k, a, Undefined) : k \in CollKeys, a \in ItemActions}
    \cup {Update(k, a, True) : k \in CollKeys, a \in ItemActions}

\* A collection holding the item at cell 4 under the keys of dom (for an
\* array dom is 0..n-1).
CollectionOf(o, dom) ==
    CASE o = "numberMapOperations" ->
            NewObject([s \in {NumberToString(k) : k \in dom} |-> Ref(4)])
      [] o = "immutableMapOperations" -> NewMap([k \in dom |-> Ref(4)])
      [] o = "arrayOperations" -> NewArray([i \in 1..Cardinality(dom) |-> Ref(4)])
Contents(o) ==
    IF o = "arrayOperations" THEN {0..(n - 1) : n \in 0..2} ELSE SUBSET CollKeys

\* The owner states a caller starts from: cell 6, a Shop whose shelves are
\* the collection at cell 5.
CollHeap(o, dom) ==
    AppHeap(o) \o <<NewObject([price |-> Num(1), stock |-> Num(0)]),
                    CollectionOf(o, dom),
                    NewObject([shelves |-> Ref(5), open |-> Num(1)])>>

\* The reducers, with the collection declared with the setter given.
CollReducers(o, set) ==
    [AppReducers(o) EXCEPT ![4].head =
        collection("SHELVES", ShelfReducer, o, getShelves, set)]

\* The collection held by an owner state, and whether it holds key k.
collectionOf(h, state) == h[state.v].f["shelves"]
HasKey(o, h, coll, k) ==
    CASE o = "numberMapOperations" -> NumberToString(k) \in DOMAIN h[coll.v].f
      [] o = "immutableMapOperations" -> k \in DOMAIN h[coll.v].f
      [] o = "arrayOperations" -> ArrayRead(h[coll.v].f, k) # Undefined

InitColl ==
    \E o \in OperationsNames, set \in {Undefined, ExplicitSetter("shelves")} :
        \E dom \in Contents(o) :
            /\ reducers = CollReducers(o, set)
            /\ heap = CollHeap(o, dom)
            /\ store = [state |-> Ref(6), reducer |-> ShopReducer, dispatched |-> <<>>]
            /\ cursors = {}
            /\ call = [op |-> "owner"]

\* state = reduce(state, payload), the reduce of the collection definition
CollReduce ==
    \E payload \in Payloads :
        /\ Len(store.dispatched) < MaxReduces
        /\ \E res \in {collection_reduce(reducers, reducers[4].head, heap,
                                         store.state, payload)} :
              /\ res.r # Thrown
              /\ heap' = res.h
              /\ store' = [store EXCEPT !.state = res.r,
                                        !.dispatched = Append(@, payload)]
        /\ call' = [op |-> "reduce", payload |-> payload,
                    before |-> [heap |-> heap, state |-> store.state]]
        /\ UNCHANGED <<reducers, cursors>>

NextColl == CollReduce

SpecColl == InitColl /\ [][NextColl]_vars

\* reduce(state, payload) of the Shop's collection, on an owner state in h
shelvesReduce(h, state, payload) ==
    collection_reduce(reducers, reducers[4].head, h, state, payload)

\* The item read at key k of the collection an owner state holds.
shelfAt(h, state, k) ==
    operations_get(ops, h, collectionOf(h, state), k, ShelfEmpty)

\* C3: a payload with remove = true deletes the key and ignores update: from
\* every owner state, for every key k and inner action a, reducing
\* {key: k, remove: true, update: a} gives the owner state that reducing
\* {key: k, remove: true} gives, and what the inner reducer makes of a is
\* not stored at k.  The call just made, if it was of that kind, gave what
\* the plain removal gives on the state it was made on.
RemoveIgnoresUpdate ==
    /\ \A k \in CollKeys, a \in ItemActions :
          \E both \in {shelvesReduce(heap, store.state, Update(k, a, True))},
             only \in {shelvesReduce(heap, store.state, Update(k, Undefined, True))},
             inner \in {chain_reduce(reducers, ShelfReducer, heap,
                                     shelfAt(heap, store.state, k), a)} :
                /\ both.r # Thrown
                /\ Val(both.h, both.r) = Val(only.h, only.r)
                /\ ~HasKey(ops, both.h, collectionOf(both.h, both.r), k)
                      \/ ops = "arrayOperations"
                /\ Val(both.h, shelfAt(both.h, both.r, k)) = Val(heap, ShelfEmpty)
                /\ Val(both.h, shelfAt(both.h, both.r, k)) # Val(inner.h, inner.r)
    /\ ( call.op = "reduce" /\ Truthy(call.payload.remove)
           /\ Truthy(call.payload.update) )
       => \E only \in {shelvesReduce(call.before.heap, call.before.state,
                                     Update(call.payload.key, Undefined, True))} :
              Val(heap, store.state) = Val(only.h, only.r)

\* a key that held an item was removed by a payload that carried an update
RemovedWithUpdate ==
    /\ call.op = "reduce"
    /\ Truthy(call.payload.remove)
    /\ Truthy(call.payload.update)
    /\ HasKey(ops, call.before.heap,
              collectionOf(call.before.heap, call.before.state), call.payload.key)
    /\ Val(heap, shelfAt(heap, store.state, call.payload.key)) = Val(heap, ShelfEmpty)
    /\ Val(heap, store.state) # Val(call.before.heap, call.before.state)

\* C4: materialize-on-write: from an owner state whose collection has no
\* key k, reducing update(k, a) gives the owner state that reducing add(k)
\* and then update(k, a) gives, and the item then at k is
\* innerReducer(innerReducer.empty, a).
MaterializeOnWrite ==
    \A k \in CollKeys, a \in ItemActions :
        ~HasKey(ops, heap, collectionOf(heap, store.state), k) =>
            \E direct \in {shelvesReduce(heap, store.state, Update(k, a, Undefined))},
               added \in {shelvesReduce(heap, store.state, Update(k, Undefined, Undefined))},
               inner \in {chain_reduce(reducers, ShelfReducer, heap, ShelfEmpty, a)} :
                \E after \in {shelvesReduce(added.h, added.r, Update(k, a, Undefined))} :
                    /\ direct.r # Thrown
                    /\ Val(direct.h, direct.r) = Val(after.h, after.r)
                    /\ Val(direct.h, shelfAt(direct.h, direct.r, k))
                           = Val(inner.h, inner.r)

\* C6: removal is idempotent: from every owner state, for every key k and
\* each operations object, reducing remove(k) twice in a row gives the
\* collection (and the owner state) that reducing it once gives; a remove(k)
\* made right after a remove(k) left the state as it was.
RemoveIsIdempotent ==
    /\ \A k \in CollKeys :
          \E once \in {shelvesReduce(heap, store.state, Update(k, Undefined, True))} :
             \E twice \in {shelvesReduce(once.h, once.r, Update(k, Undefined, True))} :
                /\ twice.r # Thrown
                /\ Val(twice.h, twice.r) = Val(once.h, once.r)
    /\ ( /\ Len(store.dispatched) >= 2
         /\ Truthy(store.dispatched[Len(store.dispatched)].remove)
         /\ Truthy(store.dispatched[Len(store.dispatched) - 1].remove)
         /\ store.dispatched[Len(store.dispatched)].key
               = store.dispatched[Len(store.dispatched) - 1].key )
       => Val(heap, store.state) = Val(call.before.heap, call.before.state)

\* a key that held an item was removed, and then removed again
RemovedTwice ==
    /\ store.dispatched = <<Update(0, Undefined, True), Update(0, Undefined, True)>>
    /\ HasKey(ops, heap, Ref(5), 0)
    /\ HasKey(ops, heap, Ref(5), 1)
    /\ Val(heap, shelfAt(heap, store.state, 0)) = Val(heap, ShelfEmpty)
    /\ Val(heap, shelfAt(heap, store.state, 1)) # Val(heap, ShelfEmpty)

\* C15: an add sets the key to the empty item: from every owner state, for
\* every key k, whether or not k holds an item, after reducing add(k) the
\* item read at k is the inner reducer's empty value.
AddSetsEmpty ==
    \A k \in CollKeys :
        \E added \in {shelvesReduce(heap, store.state, Update(k, Undefined, Undefined))} :
            /\ added.r # Thrown
            /\ Val(added.h, shelfAt(added.h, added.r, k)) = Val(heap, ShelfEmpty)

\* C18: removing an absent key is a no-op: for every key k the collection
\* does not hold, operations.remove(collection, k, empty) throws nothing and
\* returns a collection equal to the one it was given, and reducing
\* remove(k) gives an owner state equal to the one it was given.
RemoveAbsentIsNoOp ==
    \A k \in CollKeys :
        ~HasKey(ops, heap, collectionOf(heap, store.state), k) =>
            \E removed \in {operations_remove(ops, heap, collectionOf(heap, store.state),
                                              k, ShelfEmpty)},
               reduced \in {shelvesReduce(heap, store.state, Update(k, Undefined, True))} :
                /\ removed.r # Thrown
                /\ Val(removed.h, removed.r) = Val(heap, collectionOf(heap, store.state))
                /\ reduced.r # Thrown
                /\ Val(reduced.h, reduced.r) = Val(heap, store.state)

\* C20: get after set: for every collection, key k and item,
\* operations.get(operations.set(collection, k, item), k, empty) is item,
\* and the item update(k, a) writes is the item read back at k.
GetAfterSet ==
    /\ \A k \in CollKeys, elem \in {ShelfEmpty, Ref(4)} :
          \E written \in {operations_set(ops, heap, collectionOf(heap, store.state),
                                          k, elem)} :
             /\ written.r # Thrown
             /\ operations_get(ops, written.h, written.r, k, ShelfEmpty) = elem
    /\ \A k \in CollKeys, a \in ItemActions :
          \E inner \in {chain_reduce(reducers, ShelfReducer, heap,
                                      shelfAt(heap, store.state, k), a)},
             updated \in {shelvesReduce(heap, store.state, Update(k, a, Undefined))} :
                /\ updated.r # Thrown
                /\ Val(updated.h, shelfAt(updated.h, updated.r, k)) = Val(inner.h, inner.r)

\* C21: a collection action addressed to key k changes nothing but the item
\* at k: from every owner state, for every add, update or remove on k, the
\* reduce throws nothing, the item read at every other key j is the one read
\* before, j is present after exactly when it was before, and the owner
\* state has the fields it had, each but the collection with the value it
\* had, with the setter given or synthesized.
CollectionActionFrame ==
    \A payload \in Payloads :
        \E res \in {shelvesReduce(heap, store.state, payload)} :
            /\ res.r # Thrown
            /\ \A j \in CollKeys \ {payload.key} :
                  /\ Val(res.h, shelfAt(res.h, res.r, j))
                        = Val(heap, shelfAt(heap, store.state, j))
                  /\ HasKey(ops, res.h, collectionOf(res.h, res.r), j)
                        = HasKey(ops, heap, collectionOf(heap, store.state), j)
            /\ DOMAIN res.h[res.r.v].f = DOMAIN heap[store.state.v].f
            /\ \A field \in DOMAIN heap[store.state.v].f \ {"shelves"} :
                  Val(res.h, res.h[res.r.v].f[field])
                      = Val(heap, heap[store.state.v].f[field])

(***************************************************************************)
(* SpecSynth: collections and references declared with a getter alone, the *)
(* getter written in each of the forms a caller may write it in, and the   *)
(* setter ensureReducer made applied to owner states.                      *)
(***************************************************************************)
MaxSets == 2        \* applications of a setter

\* Names, as the characters they are written with.
ParameterNames == {<<"s">>, <<"S">>}
ObjectNames == ParameterNames \cup {<<"t">>}
PropertyPaths ==
    {<<(<<"c", "o", "u", "n", "t">>)>>, <<(<<"a">>)>>, <<(<<"a", "1">>)>>,
     <<(<<"a">>), (<<"b">>)>>}
Forms == {"lambda", "parenthesized", "function"}

RECURSIVE Dotted(_)
Dotted(path) ==
    IF path = <<>> THEN <<>> ELSE <<".">> \o Head(path) \o Dotted(Tail(path))

\* The source text of a getter of the given form that takes param and
\* returns object.path, as Function.prototype.toString gives it.
GetterSource(form, param, object, path) ==
    CASE form = "lambda" ->
            param \o <<" ", "=", ">", " ">> \o object \o Dotted(path)
      [] form = "parenthesized" ->
            <<"(">> \o param \o <<")", " ", "=", ">", " ">> \o object \o Dotted(path)
      [] form = "function" ->
            <<"f", "u", "n", "c", "t", "i", "o", "n", " ", "(">> \o param
            \o <<")", " ", "{", " ", "r", "e", "t", "u", "r", "n", " ">>
            \o object \o Dotted(path) \o <<";", " ", "}">>

Getter(form, param, object, path) ==
    [src |-> GetterSource(form, param, object, path),
     path |-> [i \in DOMAIN path |-> Join(path[i])],
     param |-> Join(param), object |-> Join(object)]

Getters ==
    {Getter(form, param, object, path) :
        form \in Forms, param \in ParameterNames,
        object \in ObjectNames, path \in PropertyPaths}

SetValues == {Num(5), Num(6)}

\* The owner state a caller starts from: { count: 0, a: { b: 3 }, a1: 2 }.
SynthHeap ==
    <<NewObject([b |-> Num(3)]),
      NewObject([count |-> Num(0), a |-> Ref(1), a1 |-> Num(2)])>>

InitSynth ==
    /\ heap = SynthHeap
    /\ reducers = primitive(<<>>)
    /\ store = [state |-> Ref(2), reducer |-> 0, dispatched |-> <<>>]
    /\ cursors = {}
    /\ call = [op |-> "owner"]

\* collection(type, reducer, operations, get) and reference(type, reducer,
\* get): the definition made, or the Error thrown
Declare ==
    \E g \in Getters :
        /\ call.op = "owner"
        /\ \/ call' = [op |-> "declare", getter |-> g,
                       def |-> collection("FIELD", 1, "numberMapOperations", g,
                                          Undefined)]
           \/ call' = [op |-> "declare", getter |-> g,
                       def |-> reference("FIELD", 1, g, Undefined)]
        /\ UNCHANGED <<heap, reducers, store, cursors>>

\* state = set(state, value), with the setter of the definition declared
Set ==
    \E v \in SetValues :
        /\ call.op \in {"declare", "set"}
        /\ call.def.kind # "error"
        /\ Len(store.dispatched) < MaxSets
        /\ \E res \in {applySetter(heap, call.def.set, store.state, v)} :
              /\ heap' = res.h
              /\ store' = [store EXCEPT !.state = res.r,
                                        !.dispatched = Append(@, v)]
              /\ call' = [op |-> "set", getter |-> call.getter, def |-> call.def,
                          state |-> store.state, value |-> v,
                          before |-> heap]
        /\ UNCHANGED <<reducers, cursors>>

NextSynth == Declare \/ Set

SpecSynth == InitSynth /\ [][NextSynth]_vars

\* A getter that returns one property of its sole parameter.
SinglePropertyAccess(g) == g.object = g.param /\ Len(g.path) = 1

\* C10: the setter synthesized for a getter that is a single-property access
\* on its sole parameter, applied to (state, v), returns a state in which
\* that field is v and every other field is what it is in state, and leaves
\* state as it was.
SynthesizedSetterSetsField ==
    ( /\ call.op = "set"
      /\ call.def.set.kind = "synthesized"
      /\ SinglePropertyAccess(call.getter) )
    => \E field \in {call.getter.path[1]},
          was \in {Val(call.before, call.state).f},
          is \in {Val(heap, store.state).f} :
            /\ DOMAIN is = DOMAIN was \cup {field}
            /\ is[field] = call.value
            /\ \A other \in DOMAIN was \ {field} : is[other] = was[other]
            /\ Val(heap, call.state) = Val(call.before, call.state)

\* C11: declaring a collection or a reference with a getter alone that is
\* not a single-property access on its parameter (s => s.a.b is one) throws
\* the configuration error; no setter is made for it.
ComplexGetterIsRejected ==
    (call.op = "declare" /\ ~SinglePropertyAccess(call.getter))
    => call.def.kind = "error"

(***************************************************************************)
(* SpecRef: an owner with a reference "FEATURED" to a Shelf, which the     *)
(* owner may lack, hold as undefined or hold; the case-reduce of the       *)
(* reference is called on the owner state and cursors are taken over it.   *)
(***************************************************************************)
MaxRefReduces == 2  \* calls of the case-reduce

\* s => s.featured
getFeatured ==
    [src |-> <<"s", " ", "=", ">", " ", "s", ".", "f", "e", "a", "t", "u", "r", "e", "d">>,
     path |-> <<"featured">>]
featuredOf == reference("FEATURED", ShelfReducer, getFeatured, Undefined)

\* The reducers: those of the Shelf, then the owner's.
OwnerReducer == 4
RefReducers == reducer_action(ShelfReducers, Ref(3), featuredOf)

\* The empty Shelf, a Shelf, the empty owner, and the owner states a caller
\* starts from: one without the field, one with the field undefined and one
\* with a Shelf in it.
RefHeap ==
    <<NewObject([price |-> Num(0), stock |-> Num(0)]),
      NewObject([price |-> Num(1), stock |-> Num(0)]),
      NewObject([open |-> Num(0)]),
      NewObject([open |-> Num(1)]),
      NewObject([featured |-> Undefined, open |-> Num(1)]),
      NewObject([featured |-> Ref(2), open |-> Num(1)])>>
RefOwners == {Ref(4), Ref(5), Ref(6)}

InitRef ==
    \E owner \in RefOwners :
        /\ heap = RefHeap
        /\ reducers = RefReducers
        /\ store = [state |-> owner, reducer |-> OwnerReducer, dispatched |-> <<>>]
        /\ cursors = {}
        /\ call = [op |-> "owner"]

\* state = reduce(state, innerAction), the reduce of the reference
\* definition; when it throws the state stays.
ReferenceReduce ==
    \E a \in ShelfActions :
        /\ Len(store.dispatched) < MaxRefReduces
        /\ \E res \in {reference_reduce(reducers, reducers[OwnerReducer].head, heap,
                                        store.state, a)} :
              /\ heap' = res.h
              /\ store' = [store EXCEPT
                              !.state = IF res.r = Thrown THEN @ ELSE res.r,
                              !.dispatched = Append(@, a)]
              /\ call' = [op |-> "reduce", action |-> a, r |-> res.r,
                          before |-> [heap |-> heap, state |-> store.state]]
        /\ UNCHANGED <<reducers, cursors>>

\* featured(snapshot(store)), the reference definition called as a function
ReferenceCursor ==
    /\ Cardinality(cursors) < MaxCursors
    /\ cursors' = Hold(heap, item(reducers, reducers[OwnerReducer].head, heap,
                                  snapshot(World)))
    /\ call' = [op |-> "item"]
    /\ UNCHANGED <<heap, reducers, store>>

NextRef == ReferenceReduce \/ ReferenceCursor

SpecRef == InitRef /\ [][NextRef]_vars

\* C12: the value a reference refers to always exists: where get(state) is
\* undefined the reference cursor has the inner reducer's empty value as its
\* state and the case-reduce applies the inner action to that empty value;
\* where get(state) is there it applies it to get(state); either result is
\* committed with set.
ReferencedValueAlwaysExists ==
    \E got \in {fetchState(heap, getFeatured, store.state)} :
        /\ got = Undefined =>
              Val(heap, item(reducers, reducers[OwnerReducer].head, heap,
                             snapshot(World)).state) = Val(heap, ShelfEmpty)
        /\ \A a \in ShelfActions :
              \E res \in {reference_reduce(reducers, reducers[OwnerReducer].head,
                                           heap, store.state, a)},
                 inner \in {chain_reduce(reducers, ShelfReducer, heap,
                                         IF got = Undefined THEN ShelfEmpty ELSE got,
                                         a)} :
                 \E committed \in {applySetter(inner.h, reducers[OwnerReducer].head.set,
                                               store.state, inner.r)} :
                    /\ res.r # Thrown
                    /\ Val(res.h, res.r) = Val(committed.h, committed.r)

(***************************************************************************)
(* SpecChain: reducers are built by reducer(empty).action(...) and by      *)
(* x.action(...) on any reducer made so far, and called on states and      *)
(* actions of the caller's choosing.  The state is a counter object        *)
(* { count }; the heap holds the states a caller may pass.                 *)
(***************************************************************************)
MaxReducers == 3    \* reducers made

Tags == {"INCR", "SET"}
CounterReduces == {"increment", "reset"}
CounterDefinitions == {action(t, fn) : t \in Tags, fn \in CounterReduces}
CounterActions == {Action(t, Num(2)) : t \in Tags \cup {"NOP"}}

CounterEmpty == Ref(1)
CounterHeap == <<NewObject([count |-> Num(0)]), NewObject([count |-> Num(1)])>>
CounterStates == {Undefined, Ref(1), Ref(2)}

NoStore == [state |-> Undefined, reducer |-> 0, dispatched |-> <<>>]

InitChain ==
    /\ heap = CounterHeap
    /\ reducers = <<>>
    /\ store = NoStore
    /\ cursors = {}
    /\ call = [op |-> "reducer"]

\* reducer(empty).action(def)
StartChain ==
    \E def \in CounterDefinitions :
        /\ Len(reducers) < MaxReducers
        /\ reducers' = reducer_action(reducers, CounterEmpty, def)
        /\ call' = [op |-> "action", on |-> 0, made |-> Len(reducers) + 1,
                    before |-> reducers]
        /\ UNCHANGED <<heap, store, cursors>>

\* x.action(def)
ExtendChain ==
    \E x \in DOMAIN reducers, def \in CounterDefinitions :
        /\ Len(reducers) < MaxReducers
        /\ reducers' = chain_action(reducers, x, def)
        /\ call' = [op |-> "action", on |-> x, made |-> Len(reducers) + 1,
                    before |-> reducers]
        /\ UNCHANGED <<heap, store, cursors>>

\* x(state, action); what the call allocated is garbage once its result
\* has been looked at, so the heap stays as it was.
Reduce ==
    \E x \in DOMAIN reducers, state \in CounterStates, a \in CounterActions :
        /\ \E res \in {chain_reduce(reducers, x, heap, state, a)} :
               call' = [op |-> "reduce", x |-> x, state |-> state, action |-> a,
                        r |-> res.r, result |-> Val(res.h, res.r), calls |-> res.calls]
        /\ UNCHANGED <<heap, reducers, store, cursors>>

NextChain == StartChain \/ ExtendChain \/ Reduce

SpecChain == InitChain /\ [][NextChain]_vars

\* The definitions registered on reducer x, oldest first: x was made by
\* action() on rs[x].rest, down to the one made on the starter object.
RECURSIVE Registered(_, _)
Registered(rs, x) ==
    IF rs[x].rest = 0 THEN <<x>> ELSE Append(Registered(rs, rs[x].rest), x)

\* C1: a reducer called with an action whose tag some registered definition
\* has returns what the most recently registered definition with that tag
\* returns for (state, action.payload), and calls the reduce of no other
\* definition, however many others there are and wherever they stand.
LatestDefinitionHandles ==
    call.op = "reduce" =>
        \E regs \in {Registered(reducers, call.x)} :
            \A i \in DOMAIN regs :
                ( /\ reducers[regs[i]].headType = call.action.type
                  /\ \A j \in DOMAIN regs :
                         j > i => reducers[regs[j]].headType # call.action.type )
                => /\ call.calls = <<regs[i]>>
                   /\ \E res \in {definition_reduce(reducers, reducers[regs[i]].head,
                                                    heap, call.state,
                                                    call.action.payload)} :
                          call.result = Val(res.h, res.r)

\* three definitions, the two oldest with the tag of the action and with
\* different reduce functions, the newest with another tag
ShadowedDefinitionCalled ==
    /\ call.op = "reduce"
    /\ call.result # Thrown
    /\ \E regs \in {Registered(reducers, call.x)} :
           /\ Len(regs) = 3
           /\ reducers[regs[1]].headType = call.action.type
           /\ reducers[regs[2]].headType = call.action.type
           /\ reducers[regs[1]].head.reduce # reducers[regs[2]].head.reduce
           /\ reducers[regs[3]].headType # call.action.type
           /\ call.calls = <<regs[2]>>

\* C7: a reducer called with an action whose tag no registered definition
\* has calls no definition and returns the very state it was given, or the
\* empty value of the chain when that state is undefined.
UnhandledActionPassesThrough ==
    ( /\ call.op = "reduce"
      /\ \A n \in DOMAIN reducers :
             (\E i \in DOMAIN Registered(reducers, call.x) :
                  Registered(reducers, call.x)[i] = n)
             => reducers[n].headType # call.action.type )
    => /\ call.calls = <<>>
       /\ call.r # Thrown
       /\ call.r = IF call.state = Undefined
                   THEN reducers[call.x].empty ELSE call.state

UnhandledActionReduced ==
    /\ call.op = "reduce"
    /\ call.action.type = "NOP"
    /\ Len(Registered(reducers, call.x)) >= 2
    /\ call.state = Ref(2)
    /\ call.r = Ref(2)

\* C16: reducers are immutable: x.action(d) makes a new reducer and leaves
\* x, and every other reducer there was, as it was; after the call x(state,
\* action) gives for every state and action what it gave before, an action
\* with d's tag included, while the new reducer hands that action to d.
ActionLeavesReducerUnchanged ==
    call.op = "action" =>
        /\ call.made = Len(reducers)
        /\ call.made \notin DOMAIN call.before
        /\ \A x \in DOMAIN call.before :
              /\ reducers[x] = call.before[x]
              /\ \A state \in CounterStates, a \in CounterActions :
                    chain_reduce(reducers, x, heap, state, a)
                        = chain_reduce(call.before, x, heap, state, a)
        /\ \A state \in CounterStates :
              \E new \in {chain_reduce(reducers, call.made, heap, state,
                                       Action(reducers[call.made].headType, Num(2)))},
                 d \in {definition_reduce(reducers, reducers[call.made].head, heap,
                                          state, Num(2))} :
                 new.r = d.r /\ new.h = d.h /\ new.calls = <<call.made>>

\* INCR was registered again, as a reset, on a reducer that increments: the
\* old reducer still increments and the new one resets
IncrementShadowed ==
    /\ call.op = "action"
    /\ call.on = 1
    /\ reducers[1].head = action("INCR", "increment")
    /\ reducers[call.made].head = action("INCR", "reset")
    /\ \E old \in {chain_reduce(reducers, 1, heap, CounterEmpty, Action("INCR", Num(2)))},
          new \in {chain_reduce(reducers, call.made, heap, CounterEmpty,
                                Action("INCR", Num(2)))} :
          /\ Val(old.h, old.r) = NewObject([count |-> Num(1)])
          /\ Val(new.h, new.r) = NewObject([count |-> Num(2)])

(***************************************************************************)
(* SpecStore: x.store() for a finished counter reducer x, and dispatches   *)
(* on that store.  The reducer is reducer(empty).action(d1), or that with  *)
(* a second .action(d2); the store is the one x.store() returns.           *)
(***************************************************************************)
MaxCounterDispatch == 3

CounterChains ==
    LET one == {reducer_action(<<>>, CounterEmpty, d) : d \in CounterDefinitions}
    IN  one \cup {chain_action(rs, 1, d) : rs \in one, d \in CounterDefinitions}

InitStore ==
    /\ reducers \in CounterChains
    /\ \E made \in {createStore(reducers, Len(reducers), CounterHeap)} :
            heap = made.heap /\ store = made.store
    /\ cursors = {}
    /\ call = [op |-> "store"]

\* store.dispatch(a)
CounterDispatch ==
    \E a \in CounterActions :
        /\ Len(store.dispatched) < MaxCounterDispatch
        /\ \E w \in {store_dispatch(reducers, World, a)} :
                /\ heap' = w.heap
                /\ store' = w.store
                /\ call' = [op |-> "dispatch", action |-> a, thrown |-> w.thrown]
        /\ UNCHANGED <<reducers, cursors>>

NextStore == CounterDispatch
SpecStore == InitStore /\ [][NextStore]_vars

\* reduce folded from the left over a sequence of actions
RECURSIVE LeftFold(_, _, _, _, _)
LeftFold(rs, x, h, state, actions) ==
    IF actions = <<>> THEN [h |-> h, r |-> state]
    ELSE Bind(chain_reduce(rs, x, h, state, Head(actions)),
              LAMBDA res : LeftFold(rs, x, res.h, res.r, Tail(actions)))

\* C14: the store x.store() returns starts at x.empty, and after any sequence
\* of dispatches its state is what reducing x.empty by the dispatched actions,
\* first to last, gives; for reducer({count: 0}).action(INCR) with INCR adding
\* one, n dispatches of INCR leave { count: n }.
StoreIsLeftFold ==
    /\ store.dispatched = <<>> => store.state = reducers[store.reducer].empty
    /\ \E fold \in {LeftFold(reducers, store.reducer, CounterHeap,
                              reducers[store.reducer].empty, store.dispatched)} :
            Val(heap, store.state) = Val(fold.h, fold.r)
    /\ ( /\ reducers = reducer_action(<<>>, CounterEmpty, action("INCR", "increment"))
         /\ \A i \in DOMAIN store.dispatched : store.dispatched[i].type = "INCR" )
       => Val(heap, store.state) = NewObject([count |-> Num(Len(store.dispatched))])

IncrementedTwice ==
    /\ reducers = reducer_action(<<>>, CounterEmpty, action("INCR", "increment"))
    /\ Len(store.dispatched) = 2
    /\ \A i \in DOMAIN store.dispatched : store.dispatched[i].type = "INCR"
    /\ Val(heap, store.state) = NewObject([count |-> Num(2)])

(***************************************************************************)
(* Properties of the store and its cursors, under Spec.                    *)
(***************************************************************************)
\* C2: for every cursor c taken with snapshot(store), now or before earlier
\* dispatches, and every action a, the cursor c(a) returns has the state
\* store.getState() gives right after store.dispatch(a); so had the cursor
\* the last dispatch through a snapshot cursor returned.
CursorDispatchIsStoreDispatch ==
    /\ \A a \in ShopActions :
          \E direct \in {store_dispatch(reducers, World, a)} :
             \E read \in {Val(direct.heap, store_getState(direct))} :
                \A held \in cursors :
                   held.c.kind = "snapshot" =>
                      \E through \in {cursor_dispatch(reducers, World, held.c, a)} :
                         /\ through.c # Thrown
                         /\ through.c.kind = "snapshot"
                         /\ Val(through.w.heap, through.c.state) = read
    /\ (call.op = "dispatch" /\ call.cursor.kind = "snapshot") =>
          \E direct \in {store_dispatch(reducers, call.before, call.action)} :
              /\ call.returned # Thrown
              /\ Val(heap, call.returned.state)
                    = Val(direct.heap, store_getState(direct))

\* a snapshot cursor taken before an earlier dispatch has dispatched an action
\* that changed the state of the store
StaleSnapshotDispatched ==
    /\ call.op = "dispatch"
    /\ call.cursor.kind = "snapshot"
    /\ Len(call.before.store.dispatched) = 1
    /\ Val(heap, call.cursor.state) # Val(heap, call.before.store.state)
    /\ Val(heap, call.returned.state) # Val(heap, call.before.store.state)
    /\ Val(heap, call.returned.state) # Val(heap, call.cursor.state)

\* shelves(snapshot(store), k): the cursor at key k of the store as it is in w
shelfCursor(w, k) == items(reducers, reducers[4].head, w.heap, snapshot(w), Num(k))

CursorStateNeverChanges ==
    \A held \in cursors : Val(heap, held.c.state) = held.captured

\* a snapshot and a cursor derived from it are held while a dispatch through
\* the derived cursor has moved the store on; the cursor returned carries
\* the new state
StaleCursorsHeld ==
    /\ call.op = "dispatch"
    /\ call.cursor.kind = "items"
    /\ \E old \in cursors, inner \in cursors, new \in cursors :
          /\ old.c.kind = "snapshot"
          /\ inner.c = call.cursor
          /\ inner.c.outer = old.c
          /\ new.c = call.returned
          /\ Val(heap, old.c.state) # Val(heap, store.state)
          /\ Val(heap, inner.c.state) # Val(heap, new.c.state)
          /\ new.c.outer.state = store.state

\* The action the store receives when a is dispatched through cursor: a
\* wrapped once for each level, innermost first, with the key of the level.
RECURSIVE Addressed(_, _)
Addressed(cursor, a) ==
    IF cursor.kind = "snapshot" THEN a
    ELSE Addressed(cursor.outer,
                   IF cursor.def.kind = "collection"
                   THEN [type |-> cursor.def.type,
                         payload |-> [key |-> cursor.key.v, update |-> a,
                                      remove |-> Undefined]]
                   ELSE [type |-> cursor.def.type, payload |-> a])

\* C9: the state of a cursor inner = items(fetch, rewrap)(outer, key) is
\* fetch(outer.state, key); inner(a) dispatches the one outer action
\* rewrap(key, a) on outer, so that the store receives a wrapped once for
\* each level of the cursor with the key of that level, and returns the
\* items cursor over the cursor that the outer dispatch returned, whose
\* state is fetch of that cursor's state.
ItemsCursorFetchesAndRewraps ==
    /\ \A held \in cursors :
          held.c.kind = "items" =>
             held.c.state = items_fetch(reducers, held.c.def, heap,
                                        held.c.outer.state, held.c.key)
    /\ (call.op = "dispatch" /\ call.cursor.kind = "items") =>
          /\ store.dispatched = Append(call.before.store.dispatched,
                                       Addressed(call.cursor, call.action))
          /\ call.returned # Thrown
          /\ call.returned.kind = "items"
          /\ call.returned.def = call.cursor.def
          /\ call.returned.key = call.cursor.key
          /\ \E outer \in {cursor_dispatch(reducers, call.before, call.cursor.outer,
                                           items_update(call.cursor.def,
                                                        call.cursor.key,
                                                        call.action))} :
                /\ call.returned.outer = outer.c
                /\ call.returned.state =
                      items_fetch(reducers, call.cursor.def, heap, outer.c.state,
                                  call.cursor.key)

\* the stock of the shelf at key 1 was replaced through a cursor two levels
\* deep, and the store received the action wrapped twice
NestedCursorDispatched ==
    /\ call.op = "dispatch"
    /\ call.cursor.kind = "items"
    /\ call.cursor.outer.kind = "items"
    /\ call.cursor.outer.key = Num(1)
    /\ call.action = replace(Num(2))
    /\ store.dispatched[Len(store.dispatched)] =
          Action("SHELVES", Update(1, Action("STOCK", Action("REPLACE", Num(2))),
                                   Undefined))
    /\ call.returned.state = Num(2)
    /\ call.cursor.state = Num(0)

\* The cursor over the same path as cursor, taken anew from the store in w.
RECURSIVE Fresh(_, _)
Fresh(cursor, w) ==
    IF cursor.kind = "snapshot" THEN snapshot(w)
    ELSE items(reducers, cursor.def, w.heap, Fresh(cursor.outer, w), cursor.key)

\* A cursor made by a property: a reference over the reducer of primitive().
IsProperty(cursor) ==
    /\ cursor.kind = "items"
    /\ cursor.def.kind = "reference"
    /\ reducers[cursor.def.reducer].headType = REPLACE

\* C17: a dispatch through a stale cursor acts on the state the store has:
\* after every interleaving of dispatches through held cursors, removals and
\* dispatches on the store itself, the store's state is what reducing its
\* first state by the actions received, first to last, gives, so no earlier
\* effect is lost; the dispatch just made through a cursor, whatever state
\* that cursor captured, left reduce(state of the store before, addressed
\* action), and returned the cursor re-derived from that state.
DispatchActsOnCurrentState ==
    /\ \E first \in {createStore(reducers, ShopReducer, AppHeap(ops))} :
          \E fold \in {LeftFold(reducers, ShopReducer, first.heap, first.store.state,
                                 store.dispatched)} :
             Val(heap, store.state) = Val(fold.h, fold.r)
    /\ call.op = "dispatch" =>
          \E direct \in {chain_reduce(reducers, ShopReducer, call.before.heap,
                                       call.before.store.state,
                                       Addressed(call.cursor, call.action))} :
             /\ direct.r # Thrown
             /\ Val(heap, store.state) = Val(direct.h, direct.r)
             /\ call.returned = Fresh(call.cursor, World)

\* open was replaced through one cursor and then a price set through a shelf
\* cursor taken, like the first, from the store in its first state; the
\* store has both effects, and the cursor returned shows the price
StaleCursorsInterleaved ==
    /\ call.op = "dispatch"
    /\ call.cursor.kind = "items" /\ call.cursor.def.kind = "collection"
    /\ call.cursor.outer.state = ShopEmpty
    /\ store.dispatched[1] = reference_update("OPEN", replace(Num(1)))
    /\ call.action = Action("SET_PRICE", Num(2))
    /\ Len(store.dispatched) = 2
    /\ Val(heap, store.state).f.open = Num(1)
    /\ Val(heap, call.returned.state).f.price = Num(2)
    /\ Val(heap, call.cursor.outer.state).f.open = Num(0)

====
